---- MODULE Spec2Model ----
(***************************************************************************)
(* Game inference of rusteam (src/game.rs): Game::from_path and the        *)
(* predicates it is built from.                                            *)
(*                                                                         *)
(* Text is modelled at character level: an OsStr / String is a sequence of *)
(* one-character strings, so that "contains", "extension" and equality are *)
(* computed the way the code computes them.  A path is the sequence of its *)
(* components (std::path::Components); the root is the component "/".      *)
(* Option<T> is a sequence of length 0 (None) or 1 (Some).                 *)
(***************************************************************************)
EXTENDS Naturals, Sequences, FiniteSets

VARIABLES
    op,         \* the call that was made ("none" before it)
    directory,  \* from_path: the directory argument
    listing,    \* from_path: what entries(directory) returned
    game,       \* from_path: the Game returned
    panicked,   \* from_path / same_platform: the call unwound with a panic
    file,       \* platform / is_launcher: the file argument
    launchers,  \* same_platform: the slice argument
    ret,        \* platform / same_platform: Option<Platform> returned
    retBool     \* is_launcher: bool returned

vars == <<op, directory, listing, game, panicked, file, launchers, ret, retBool>>

----------------------------------------------------------------------------
(* Bounds *)

\* longest directory listing entries() returns
MaxEntries == 3
\* longest slice handed to same_platform directly
MaxLaunchers == 3

----------------------------------------------------------------------------
(* Option, Platform *)

None == <<>>
Some(x) == <<x>>

Native == "Native"
Wine == "Wine"
Platform == {Native, Wine}

\* the value standing for an unwound call where an Option<Platform> was due
Panic == <<"panic">>

----------------------------------------------------------------------------
(* Text *)

\* a byte that is not valid UTF-8, and U+FFFD which to_string_lossy puts in
\* its place
BAD == "0xFF"
REPL == "U+FFFD"

Dot == <<".">>
Dash == <<"-">>
Under == <<"_">>
W_a == <<"a">>
W_b == <<"b">>
W_sh == <<"s", "h">>
W_x86 == <<"x", "8", "6">>
W_64 == <<"6", "4">>
W_x86_64 == W_x86 \o Under \o W_64
W_exe == <<"e", "x", "e">>
W_EXE == <<"E", "X", "E">>
W_png == <<"p", "n", "g">>
W_txt == <<"t", "x", "t">>
W_noext == <<"n", "o", "e", "x", "t">>
W_run == <<"r", "u", "n">>
W_game == <<"g", "a", "m", "e">>
W_mygame == <<"m", "y">> \o W_game
W_file == <<"f", "i", "l", "e">>
W_home == <<"h", "o", "m", "e">>
W_opt == <<"o", "p", "t">>
W_launcher == <<"l", "a", "u", "n", "c", "h", "e", "r">>
W_readme == <<"r", "e", "a", "d", "m", "e">>
W_uninstall == <<"u", "n", "i", "n", "s", "t", "a", "l", "l">>
W_Uninstall == <<"U", "n", "i", "n", "s", "t", "a", "l", "l">>
W_bad == <<"g", BAD, "m", "e">>

\* str::contains: pat occurs in s at some position
Contains(s, pat) ==
    \E i \in 1..Len(s) :
        /\ i + Len(pat) - 1 <= Len(s)
        /\ SubSeq(s, i, i + Len(pat) - 1) = pat

\* OsStr::to_string_lossy: every invalid byte becomes U+FFFD
to_string_lossy(os) == [i \in 1..Len(os) |-> IF os[i] = BAD THEN REPL ELSE os[i]]

\* OsStr::to_str: None unless the whole string is valid UTF-8
to_str(os) == IF \E i \in 1..Len(os) : os[i] = BAD THEN None ELSE Some(os)

----------------------------------------------------------------------------
(* Paths *)

RootDir == <<"/">>
CurDir == Dot
ParentDir == <<".", ".">>

\* Path::components: "." is dropped everywhere but in first position
Components(path) ==
    IF path = <<>> THEN <<>>
    ELSE <<Head(path)>> \o SelectSeq(Tail(path), LAMBDA c : c # CurDir)

\* Path::file_name: the last component, when it is a normal one
file_name(path) ==
    LET cs == Components(path)
    IN  IF cs = <<>> THEN None
        ELSE LET last == cs[Len(cs)]
             IN  IF last \in {RootDir, CurDir, ParentDir} THEN None ELSE Some(last)

\* position of the last '.' of a name, 0 when it has none
LastDot(name) ==
    LET dots == {i \in 1..Len(name) : name[i] = "."}
    IN  IF dots = {} THEN 0 ELSE CHOOSE i \in dots : \A j \in dots : j <= i

\* Path::extension: the part of file_name after its last '.'; None when there
\* is no file name, no '.', or nothing before the last '.'
extension(path) ==
    LET fn == file_name(path)
    IN  IF fn = None THEN None
        ELSE LET name == fn[1]
                 d == LastDot(name)
             IN  IF d = 0 \/ d = 1 THEN None
                 ELSE Some(SubSeq(name, d + 1, Len(name)))

\* Path::parent: the path without its last component
parent(path) ==
    LET cs == Components(path)
    IN  IF cs = <<>> \/ cs[Len(cs)] = RootDir THEN None
        ELSE Some(SubSeq(cs, 1, Len(cs) - 1))

\* Path::join with a relative one-component path
join(path, name) == path \o <<name>>

----------------------------------------------------------------------------
(* crate::filesystem, the two collaborators of game.rs *)

\* has_same_name_as_parent_dir: the file's full name equals the name of the
\* directory that holds it
has_same_name_as_parent_dir(filepath) ==
    LET dir == parent(filepath)
    IN  /\ dir # None
        /\ file_name(filepath) # None
        /\ file_name(dir[1]) = file_name(filepath)

\* names a directory entry can have
Children ==
    { W_run \o Dot \o W_sh,
      W_game \o Dot \o W_x86_64,
      W_launcher \o Dot \o W_exe,
      W_uninstall \o Dash \o W_game \o Dot \o W_sh,
      W_Uninstall \o Dot \o W_exe,
      W_game \o Under \o W_uninstall \o Dot \o W_exe,
      W_uninstall,
      W_mygame,
      W_file \o Dot \o W_png }

RECURSIVE Orderings(_, _)
\* the sequences of at most n distinct elements of S
Orderings(S, n) ==
    IF n = 0 THEN {<<>>}
    ELSE {<<>>} \cup UNION {{<<x>> \o t : t \in Orderings(S \ {x}, n - 1)} : x \in S}

\* the direct children a directory can have, in the orders they can be listed
ChildListings == Orderings(Children, MaxEntries)

\* entries: the paths of the direct children of a directory, in the order
\* the file system yields them
entries(dir, children) == [i \in 1..Len(children) |-> join(dir, children[i])]

----------------------------------------------------------------------------
(* impl Game *)

\* Game::extension_in
extension_in(f, extensions) ==
    LET ext == extension(f)
    IN  IF ext = None THEN FALSE ELSE to_string_lossy(ext[1]) \in extensions

\* is_native with "x86_64" left out of the list
is_native_no_x86_64(f) == extension_in(f, {W_sh, W_x86})

\* Game::is_native
is_native(f) == extension_in(f, {W_sh, W_x86, W_x86_64})

\* Game::is_wine
is_wine(f) == extension_in(f, {W_exe})

\* is_uninstall matching at the start of the name only
is_uninstall_prefix(f) ==
    LET fn == file_name(f)
    IN  IF fn = None THEN FALSE
        ELSE LET n == to_string_lossy(fn[1])
             IN  Len(n) >= Len(W_uninstall) /\ SubSeq(n, 1, Len(W_uninstall)) = W_uninstall

\* Game::is_uninstall
is_uninstall(f) ==
    LET fn == file_name(f)
    IN  IF fn = None THEN FALSE ELSE Contains(to_string_lossy(fn[1]), W_uninstall)

\* is_launcher without the uninstaller test
is_launcher_no_uninstall(filepath) ==
    \/ is_native(filepath)
    \/ is_wine(filepath)
    \/ has_same_name_as_parent_dir(filepath)

\* Game::is_launcher
is_launcher(filepath) ==
    /\ ~is_uninstall(filepath)
    /\ \/ is_native(filepath)
       \/ is_wine(filepath)
       \/ has_same_name_as_parent_dir(filepath)

\* Game::platform
platform(f) ==
    IF is_native(f) THEN Some(Native)
    ELSE IF is_wine(f) THEN Some(Wine)
    ELSE None

\* same_platform trusting the first launcher
same_platform_first_only(ls) ==
    IF ls = <<>> THEN None ELSE platform(ls[1])

\* same_platform skipping the launchers that classify to no platform
same_platform_lenient(ls) ==
    IF ls = <<>> THEN None
    ELSE LET first == platform(ls[1])
         IN  IF first = None THEN None
             ELSE IF \A i \in 1..Len(ls) : platform(ls[i]) \in {None, first}
                  THEN first
                  ELSE None

\* same_platform without the is_empty test
same_platform_unchecked(ls) ==
    IF 1 \notin DOMAIN ls THEN Panic
    ELSE LET first == platform(ls[1])
         IN  IF first = None THEN None
             ELSE IF \A i \in 1..Len(ls) : platform(ls[i]) = first
                  THEN first
                  ELSE None

\* Game::same_platform; indexing a slice out of bounds panics
same_platform(ls) ==
    IF ls = <<>> THEN None
    ELSE IF 1 \notin DOMAIN ls THEN Panic
    ELSE LET first == platform(ls[1])
         IN  IF first = None THEN None
             ELSE IF \A i \in 1..Len(ls) :
                        LET p == platform(ls[i])
                        IN  p # None /\ p[1] = first[1]
                  THEN first
                  ELSE None

RECURSIVE Filter(_)
\* into_iter().filter(is_launcher).collect()
Filter(s) ==
    IF s = <<>> THEN <<>>
    ELSE IF is_launcher(Head(s)) THEN <<Head(s)>> \o Filter(Tail(s))
    ELSE Filter(Tail(s))

Reverse(s) == [i \in 1..Len(s) |-> s[Len(s) + 1 - i]]

\* find_launchers collecting the launchers back to front
find_launchers_reversed(dir, listed) ==
    LET found == Reverse(Filter(listed))
    IN  <<same_platform(found), found>>

\* Game::find_launchers; listed is what entries(directory) returned
find_launchers(dir, listed) ==
    LET found == Filter(listed)
    IN  <<same_platform(found), found>>

\* basename taking Path::file_stem, the name without its extension
basename_stem(path) ==
    LET fn == file_name(path)
    IN  IF fn = None THEN None
        ELSE IF extension(path) = None THEN to_str(fn[1])
        ELSE to_str(SubSeq(fn[1], 1, LastDot(fn[1]) - 1))

\* Game::basename
basename(path) ==
    LET fn == file_name(path)
    IN  IF fn = None THEN None ELSE to_str(fn[1])

\* from_path storing the directory normalised
from_path_normalised(dir, listed) ==
    LET found == find_launchers(dir, listed)
    IN  [ name      |-> basename(dir),
          genres    |-> <<>>,
          platform  |-> found[1],
          launchers |-> found[2],
          directory |-> Components(dir) ]

\* Game::from_path; listed is what entries(directory) returned
from_path(dir, listed) ==
    LET found == find_launchers(dir, listed)
    IN  [ name      |-> basename(dir),
          genres    |-> <<>>,
          platform  |-> found[1],
          launchers |-> found[2],
          directory |-> dir ]

----------------------------------------------------------------------------
(* Inputs *)

\* directories from_path is called with
Dirs ==
    { <<RootDir>>,
      <<W_mygame>>,
      <<W_mygame, CurDir>>,
      <<W_game, ParentDir>>,
      <<RootDir, W_home, W_file \o Dot \o W_png>>,
      <<RootDir, W_opt, W_uninstall>>,
      <<RootDir, W_opt, W_bad>> }

\* file names beyond Children the predicates are called with
MoreNames ==
    { W_readme \o Dot \o W_txt,
      W_bad,
      Dot \o W_sh,
      W_game \o Dot \o W_x86,
      W_game \o Dot \o W_EXE,
      W_game \o Dot \o W_sh \o Dot \o W_txt,
      W_game \o Dot \o W_txt \o Dot \o W_sh,
      W_game \o Dot,
      W_game \o Dot \o <<"s", BAD>>,
      W_bad \o Dot \o W_exe,
      Dot \o W_exe,
      Dot \o Dot \o W_sh,
      W_sh,
      W_a \o Dot \o W_exe,
      W_b \o Dot \o W_exe,
      W_b \o Dot \o W_sh,
      W_a \o Dot \o W_noext }

\* paths platform and is_launcher are called with
Files == Dirs \cup {join(d, n) : d \in Dirs, n \in Children \cup MoreNames}

\* paths the slices handed to same_platform are made of
Launchers ==
    { <<W_a \o Dot \o W_exe>>,
      <<W_b \o Dot \o W_exe>>,
      <<W_b \o Dot \o W_sh>>,
      <<W_a \o Dot \o W_noext>>,
      <<W_game, W_game \o Dot \o W_x86_64>>,
      <<W_mygame, W_mygame>>,
      <<W_game, Dot \o W_sh>> }

----------------------------------------------------------------------------
(* The calls *)

NoGame == [name |-> None, genres |-> <<>>, platform |-> None,
           launchers |-> <<>>, directory |-> <<>>]

Init ==
    /\ op = "none"
    /\ directory = <<>>
    /\ listing = <<>>
    /\ game = NoGame
    /\ panicked = FALSE
    /\ file = <<>>
    /\ launchers = <<>>
    /\ ret = None
    /\ retBool = FALSE

\* a call of Game::from_path(dir), entries(dir) returning listed
FromPath ==
    /\ op = "none"
    /\ \E dir \in Dirs : \E children \in ChildListings :
        LET listed == entries(dir, children)
            g == from_path(dir, listed)
        IN  /\ op' = "from_path"
            /\ directory' = dir
            /\ listing' = listed
            /\ panicked' = (g.platform = Panic)
            /\ game' = IF g.platform = Panic THEN NoGame ELSE g
            /\ file' = <<>>
            /\ launchers' = <<>>
            /\ ret' = None
            /\ retBool' = FALSE

\* slices same_platform is called with
LauncherSlices == UNION {[1..n -> Launchers] : n \in 0..MaxLaunchers}

\* a call of Game::same_platform(ls)
SamePlatform ==
    /\ op = "none"
    /\ \E ls \in LauncherSlices :
        LET r == same_platform(ls)
        IN  /\ op' = "same_platform"
            /\ launchers' = ls
            /\ panicked' = (r = Panic)
            /\ ret' = IF r = Panic THEN None ELSE r
            /\ directory' = <<>>
            /\ listing' = <<>>
            /\ game' = NoGame
            /\ file' = <<>>
            /\ retBool' = FALSE

\* a call of Game::platform(f)
PlatformOf ==
    /\ op = "none"
    /\ \E f \in Files :
        /\ op' = "platform"
        /\ file' = f
        /\ ret' = platform(f)
        /\ panicked' = FALSE
        /\ directory' = <<>>
        /\ listing' = <<>>
        /\ game' = NoGame
        /\ launchers' = <<>>
        /\ retBool' = FALSE

\* a call of Game::is_launcher(f)
IsLauncher ==
    /\ op = "none"
    /\ \E f \in Files :
        /\ op' = "is_launcher"
        /\ file' = f
        /\ retBool' = is_launcher(f)
        /\ panicked' = FALSE
        /\ directory' = <<>>
        /\ listing' = <<>>
        /\ game' = NoGame
        /\ launchers' = <<>>
        /\ ret' = None

Next ==
    \/ FromPath
    \/ SamePlatform
    \/ PlatformOf
    \/ IsLauncher

Spec == Init /\ [][Next]_vars

----------------------------------------------------------------------------
(* Properties *)

Range(s) == {s[i] : i \in DOMAIN s}

\* the final component of a path as it is written
LastName(path) == path[Len(path)]

P_run_sh == W_run \o Dot \o W_sh
P_game_x86_64 == W_game \o Dot \o W_x86_64
P_launcher_exe == W_launcher \o Dot \o W_exe
P_Uninstall_exe == W_Uninstall \o Dot \o W_exe
P_game_uninstall_exe == W_game \o Under \o W_uninstall \o Dot \o W_exe
P_file_png == W_file \o Dot \o W_png
D_home_file_png == <<RootDir, W_home, P_file_png>>
D_opt_uninstall == <<RootDir, W_opt, W_uninstall>>

\* C1: the Game from_path returns has platform = Some(p) only if its
\* launchers are non-empty and every one of them classifies to p.
C1_PlatformOnlyIfAllAgree ==
    op = "from_path" =>
        \A p \in Platform :
            game.platform = Some(p) =>
                /\ game.launchers # <<>>
                /\ \A i \in DOMAIN game.launchers :
                       platform(game.launchers[i]) = Some(p)

\* a directory with two native launchers gets the platform Native
C1_Witness ==
    /\ op = "from_path"
    /\ game.platform = Some(Native)
    /\ Len(game.launchers) >= 2

\* C2: is_launcher(file) holds exactly when the file is no uninstaller and is
\* classified Native, or classified Wine, or named like its parent directory;
\* so a file with no platform is a launcher exactly when it is no uninstaller
\* and is named like its parent directory.
C2_IsLauncherIff ==
    op = "is_launcher" =>
        /\ retBool <=>
               /\ ~is_uninstall(file)
               /\ \/ platform(file) = Some(Native)
                  \/ platform(file) = Some(Wine)
                  \/ has_same_name_as_parent_dir(file)
        /\ platform(file) = None =>
               (retBool <=>
                    ~is_uninstall(file) /\ has_same_name_as_parent_dir(file))

\* mygame/mygame, with no extension, is a launcher by its name alone
C2_Witness ==
    /\ op = "is_launcher"
    /\ file = <<W_mygame, W_mygame>>
    /\ platform(file) = None
    /\ retBool

\* C3: no listed entry whose file name contains "uninstall", at any position
\* and in this very case, is among the launchers from_path returns, whatever
\* its extension or its parent's name; an entry whose name has the text in
\* another case only is not held to be an uninstaller.
C3_NoUninstallerLaunches ==
    op = "from_path" =>
        \A i \in DOMAIN listing :
            /\ Contains(LastName(listing[i]), W_uninstall) =>
                   listing[i] \notin Range(game.launchers)
            /\ LastName(listing[i]) = P_Uninstall_exe =>
                   /\ ~is_uninstall(listing[i])
                   /\ listing[i] \in Range(game.launchers)

\* in /opt/uninstall the entries uninstall and game_uninstall.exe are left
\* out and Uninstall.exe is the one launcher
C3_Witness ==
    /\ op = "from_path"
    /\ directory = D_opt_uninstall
    /\ join(directory, W_uninstall) \in Range(listing)
    /\ join(directory, P_game_uninstall_exe) \in Range(listing)
    /\ game.launchers = <<join(directory, P_Uninstall_exe)>>

\* C4: same_platform gives None for the empty slice; else, with p0 the
\* platform of the first launcher, None when p0 is None, and p0 exactly when
\* every launcher classifies to p0, None otherwise.
C4_SamePlatform ==
    op = "same_platform" =>
        /\ ~panicked
        /\ launchers = <<>> => ret = None
        /\ launchers # <<>> =>
               LET p0 == platform(launchers[1])
               IN  /\ p0 = None => ret = None
                   /\ p0 # None =>
                          /\ ret \in {p0, None}
                          /\ ret = p0 <=>
                                 \A i \in DOMAIN launchers : platform(launchers[i]) = p0
        /\ launchers = <<<<W_a \o Dot \o W_exe>>, <<W_b \o Dot \o W_exe>>>> => ret = Some(Wine)
        /\ launchers = <<<<W_a \o Dot \o W_exe>>, <<W_b \o Dot \o W_sh>>>> => ret = None
        /\ launchers = <<<<W_a \o Dot \o W_noext>>, <<W_b \o Dot \o W_exe>>>> => ret = None

\* two Wine launchers and one that classifies to nothing: no platform
C4_Witness ==
    /\ op = "same_platform"
    /\ Len(launchers) = 3
    /\ platform(launchers[1]) = Some(Wine)
    /\ platform(launchers[2]) = Some(Wine)
    /\ platform(launchers[3]) = None
    /\ ret = None

\* the places of the listing whose entries are launchers
LauncherPlaces == {i \in DOMAIN listing : is_launcher(listing[i])}

\* the k-th smallest element of a set of numbers
Kth(S, k) == CHOOSE i \in S : Cardinality({j \in S : j <= i}) = k

\* C5: the launchers of the Game are exactly the listed entries that
\* is_launcher accepts, each once, in the listing's order.
C5_LaunchersAreFilteredListing ==
    op = "from_path" =>
        /\ Len(game.launchers) = Cardinality(LauncherPlaces)
        /\ \A k \in DOMAIN game.launchers :
               game.launchers[k] = listing[Kth(LauncherPlaces, k)]
        /\ listing = <<join(directory, P_launcher_exe), join(directory, P_run_sh)>> =>
               game.launchers = listing /\ game.platform = None

\* of three entries the first and the third are launchers, of two platforms
C5_Witness ==
    /\ op = "from_path"
    /\ Len(listing) = 3
    /\ game.launchers = <<listing[1], listing[3]>>
    /\ platform(listing[1]) = Some(Wine)
    /\ platform(listing[3]) = Some(Native)
    /\ game.platform = None

\* the text after the last '.' of the final component, None without a '.'
TextAfterLastDot(path) ==
    LET name == LastName(path)
    IN  IF LastDot(name) = 0 THEN None
        ELSE Some(SubSeq(name, LastDot(name) + 1, Len(name)))

\* the same, but a '.' that opens the name starts no extension
TextAfterInnerDot(path) ==
    LET name == LastName(path)
    IN  IF LastDot(name) <= 1 THEN None
        ELSE Some(SubSeq(name, LastDot(name) + 1, Len(name)))

\* C6 as stated: platform(file) is Native exactly when the text after the
\* last '.' of the file name is sh, x86 or x86_64, Wine exactly when it is
\* exe, and None otherwise.
C6_AsStated ==
    op = "platform" =>
        /\ ret = Some(Native) <=>
               TextAfterLastDot(file) \in {Some(W_sh), Some(W_x86), Some(W_x86_64)}
        /\ ret = Some(Wine) <=> TextAfterLastDot(file) = Some(W_exe)

\* C6: platform(file) is Native exactly when the text after the last '.' of
\* the file name, that '.' not being the first character of the name, is sh,
\* x86 or x86_64, Wine exactly when it is exe, and None otherwise; the two
\* tests never both hold.
C6_PlatformByExtension ==
    op = "platform" =>
        /\ ret = Some(Native) <=>
               TextAfterInnerDot(file) \in {Some(W_sh), Some(W_x86), Some(W_x86_64)}
        /\ ret = Some(Wine) <=> TextAfterInnerDot(file) = Some(W_exe)
        /\ ret \in {None, Some(Native), Some(Wine)}
        /\ TextAfterInnerDot(file) = None => ret = None
        /\ ~(is_native(file) /\ is_wine(file))

\* game.x86_64 classifies Native
C6_Witness ==
    /\ op = "platform"
    /\ LastName(file) = P_game_x86_64
    /\ ret = Some(Native)

ValidText(s) == \A i \in DOMAIN s : s[i] # BAD

\* C7: name is Some(n) when the directory's final component is the valid
\* text n, extension included, and None when the path has no final component
\* or it is no valid text.
C7_NameIsFinalComponent ==
    op = "from_path" =>
        LET fn == file_name(directory)
        IN  /\ (fn # None /\ ValidText(fn[1])) => game.name = Some(fn[1])
            /\ (fn = None \/ ~ValidText(fn[1])) => game.name = None
            /\ directory = D_home_file_png => game.name = Some(P_file_png)
            /\ directory = <<RootDir>> => game.name = None

\* /home/file.png with a non-empty listing is named file.png
C7_Witness ==
    /\ op = "from_path"
    /\ directory = D_home_file_png
    /\ listing # <<>>
    /\ game.name = Some(P_file_png)

\* C8: from_path returns a fully populated Game for every path and listing
\* and never panics; with no launcher among the entries the platform is None
\* and the launchers are empty.
C8_FromPathIsTotal ==
    op = "from_path" =>
        /\ ~panicked
        /\ game # NoGame
        /\ Len(game.name) <= 1
        /\ game.platform \in {None, Some(Native), Some(Wine)}
        /\ Range(game.launchers) \subseteq Range(listing)
        /\ LauncherPlaces = {} => game.platform = None /\ game.launchers = <<>>

\* a directory listed with two entries, none of them a launcher
C8_Witness ==
    /\ op = "from_path"
    /\ ~panicked
    /\ Len(listing) = 2
    /\ game.launchers = <<>>
    /\ game.platform = None

\* C9: the Game's directory is the path from_path was given, unchanged, and
\* its genres are empty.
C9_DirectoryAndGenres ==
    op = "from_path" =>
        /\ game.directory = directory
        /\ game.genres = <<>>

\* "mygame/." keeps its trailing "." while name and launchers are inferred
C9_Witness ==
    /\ op = "from_path"
    /\ directory = <<W_mygame, CurDir>>
    /\ game.directory = <<W_mygame, CurDir>>
    /\ game.name = Some(W_mygame)
    /\ game.launchers # <<>>

\* the reorderings of a sequence
Permutations(s) ==
    {[i \in DOMAIN s |-> s[f[i]]] :
        f \in {g \in [DOMAIN s -> DOMAIN s] : \A i, j \in DOMAIN s : g[i] = g[j] => i = j}}

\* s with the entries at places i and i + 1 exchanged
Swap(s, i) ==
    [k \in DOMAIN s |-> IF k = i THEN s[i + 1] ELSE IF k = i + 1 THEN s[i] ELSE s[k]]

\* C10: same_platform gives the same result for every reordering of its
\* slice, and the platform of a Game is the same however the directory is
\* listed (exchanging neighbours of the listing, which makes up every
\* reordering, leaves it as it is).
C10_OrderDoesNotMatter ==
    /\ op = "same_platform" =>
           \A q \in Permutations(launchers) : same_platform(q) = ret
    /\ op = "from_path" =>
           \A i \in 1..(Len(listing) - 1) :
               find_launchers(directory, Swap(listing, i))[1] = game.platform

\* a slice whose first two launchers are of different platforms
C10_Witness ==
    /\ op = "same_platform"
    /\ Len(launchers) >= 2
    /\ platform(launchers[1]) = Some(Wine)
    /\ platform(launchers[2]) = Some(Native)
    /\ ret = None

====
